---- MODULE Spec2Model ----
(***************************************************************************)
(* A model of imageprocessor.py: the worker thread ImageProcessorThread    *)
(* (run, pad_id_with_sequence, get_exif_data, process_image,               *)
(* write_exif_csv) and the window PSNZImageProcessor that starts it        *)
(* (select_csv, select_output_dir, update_process_button, process_images,  *)
(* update_progress, processing_finished).                                  *)
(*                                                                         *)
(* Strings are sequences of one-character strings, so that the regular     *)
(* expressions and str methods of the code can be computed character by    *)
(* character.  Three characters are written as tokens: DQ is the double    *)
(* quote, BSL the backslash and LF the line feed.                          *)
(***************************************************************************)
EXTENDS Integers, Sequences, FiniteSets, TLC

VARIABLES
    pc,              \* where run() stands: "idle", "loop" or "done" ("none"
                     \* while the window has made no thread yet)
    csv,             \* the file at csv_path: [readable, columns, rows]
    limit_size,      \* self.limit_size
    remove_exif,     \* self.remove_exif
    add_sequence,    \* self.add_sequence
    sequence_dict,   \* self.sequence_dict
    i,               \* number of rows the loop of run() has processed
    exif_data_list,  \* local of run(): the exif_info of each success
    failed_images,   \* local of run(): (File Name, error_msg) of each failure
    signals,         \* every signal emitted so far, in order
    disk,            \* what this run has created under output_dir
    fetched,         \* number of requests.get calls made so far
    call,            \* the arguments of a single call under study, or NoCall
    ret,             \* what that call returned, or NoCall
    gui              \* the window PSNZImageProcessor, or NoGui

vars == <<pc, csv, limit_size, remove_exif, add_sequence, sequence_dict, i,
          exif_data_list, failed_images, signals, disk, fetched, call, ret,
          gui>>

(***************************************************************************)
(* Characters and strings                                                  *)
(***************************************************************************)
DQ == "DQ"
BSL == "BSL"
LF == "LF"

Digits == {"0", "1", "2", "3", "4", "5", "6", "7", "8", "9"}

\* The characters the contract bans from a file name: \ / : * ? " < > |
Forbidden == {BSL, "/", ":", "*", "?", DQ, "<", ">", "|"}

\* The character class with the backslash not escaped: r'[\/:*?<>|]'
SubClassUnescaped == {"/", ":", "*", "?", "<", ">", "|"}

\* The character class of re.sub(r'[\\/:*?<>|]', ...)
SubClass == {BSL, "/", ":", "*", "?", "<", ">", "|"}

\* The characters of lstrip('- ')
StripSet == {"-", " "}

\* str.replace('"', '', 1): only the first double quote goes
RemoveQuotesOnce(s) ==
    LET P == {k \in 1..Len(s) : s[k] = DQ}
    IN  IF P = {} THEN s
        ELSE LET p == CHOOSE q \in P : \A r \in P : q <= r
             IN  SubSeq(s, 1, p - 1) \o SubSeq(s, p + 1, Len(s))

\* str.replace('"', '')
RemoveQuotes(s) == SelectSeq(s, LAMBDA c : c # DQ)

\* re.sub(r'[\\/:*?<>|]', '_', s)
ReSub(s) == [k \in 1..Len(s) |-> IF s[k] \in SubClass THEN "_" ELSE s[k]]

\* The length of the longest prefix of s made of characters of set
RECURSIVE PrefixLen(_, _)
PrefixLen(s, set) ==
    IF s = <<>> \/ Head(s) \notin set THEN 0 ELSE 1 + PrefixLen(Tail(s), set)

Drop(s, n) == SubSeq(s, n + 1, Len(s))

\* str.lstrip('- ')
LStrip(s) == Drop(s, PrefixLen(s, StripSet))

\* The positions of character c in s
Positions(s, c) == {k \in 1..Len(s) : s[k] = c}

Max(S) == CHOOSE x \in S : \A y \in S : y <= x

\* str(n) for a natural number n
RECURSIVE ToStr(_)
ToStr(n) ==
    LET d == <<"0", "1", "2", "3", "4", "5", "6", "7", "8", "9">>[(n % 10) + 1]
    IN  IF n < 10 THEN <<d>> ELSE ToStr(n \div 10) \o <<d>>

(***************************************************************************)
(* pad_id_with_sequence                                                    *)
(***************************************************************************)
\* re.match(r'^(\d+)(.*)$', filename): \d+ takes the leading digits, '.'
\* matches any character but the line feed and '$' matches at the end of
\* the string or before a line feed that ends it.
ReMatch(filename) ==
    LET n     == PrefixLen(filename, Digits)
        after == Drop(filename, n)
        body  == IF after # <<>> /\ after[Len(after)] = LF
                 THEN SubSeq(after, 1, Len(after) - 1)
                 ELSE after
    IN  IF n >= 1 /\ Positions(body, LF) = {}
        THEN [matched |-> TRUE, id_num |-> SubSeq(filename, 1, n), rest |-> body]
        ELSE [matched |-> FALSE, id_num |-> <<>>, rest |-> <<>>]

\* The name built from id_num, sequence_num and rest (lines 139-144)
Sequenced(id_num, sequence_num, rest) ==
    LET dots == Positions(rest, ".")
    IN  IF dots # {}
        THEN LET p == Max(dots)
             IN  id_num \o <<"-">> \o ToStr(sequence_num) \o <<" ">>
                 \o LStrip(SubSeq(rest, 1, p - 1)) \o <<".">> \o Drop(rest, p)
        ELSE id_num \o <<"-">> \o ToStr(sequence_num) \o <<" ">> \o LStrip(rest)

\* The value sequence_dict has for id_num when it is read at line 136
Lookup(dict, id_num) == IF id_num \in DOMAIN dict THEN dict[id_num] ELSE 1

\* pad_id_with_sequence(filename) with self.add_sequence = add and
\* self.sequence_dict = dict: the name returned and the dictionary left.
PadIdWithSequence(filename, add, dict) ==
    LET m == ReMatch(filename)
    IN  IF ~add \/ ~m.matched
        THEN [name |-> filename, dict |-> dict]
        ELSE LET sequence_num == Lookup(dict, m.id_num)
             IN  [name |-> Sequenced(m.id_num, sequence_num, m.rest),
                  dict |-> [k \in DOMAIN dict \cup {m.id_num} |->
                               IF k = m.id_num THEN sequence_num + 1 ELSE dict[k]]]

\* Lines 183-186 of process_image: the output file name of a raw name
DeriveFilename(original_filename, add, dict) ==
    LET p == PadIdWithSequence(RemoveQuotes(original_filename), add, dict)
    IN  [name |-> ReSub(p.name), dict |-> p.dict]

(***************************************************************************)
(* Images                                                                  *)
(***************************************************************************)
\* self.fullsize_limit, self.thumbnail_size
FullsizeLimitW == 3840
FullsizeLimitH == 2160
ThumbnailSize == 810

Abs(x) == IF x < 0 THEN -x ELSE x

\* round_aspect of PIL's Image.thumbnail: of the floor fl and the ceiling of
\* a quotient the one with the smaller key, the floor on a tie, and at
\* least 1; floor_first says key(floor) <= key(ceiling).
RoundAspect(num, den, floor_first) ==
    LET fl == num \div den
        n  == IF floor_first \/ num % den = 0 THEN fl ELSE fl + 1
    IN  IF n < 1 THEN 1 ELSE n

\* img.thumbnail((bx, by)) on an image of w x h pixels: the size it is left
\* with.  With aspect = w / h, the key of a width n is abs(aspect - n / by)
\* and the key of a height n is 0 if n = 0 and else abs(aspect - bx / n);
\* the quotients are compared cross-multiplied.
Thumbnail(w, h, bx, by) ==
    IF bx >= w /\ by >= h
    THEN <<w, h>>
    ELSE IF bx * h >= by * w
         THEN LET fl == (by * w) \div h
              IN  <<RoundAspect(by * w, h,
                        Abs(w * by - fl * h) <= Abs(w * by - (fl + 1) * h)), by>>
         ELSE LET fl == (bx * h) \div w
              IN  <<bx, RoundAspect(bx * h, w,
                        fl = 0 \/ Abs(w * fl - bx * h) * (fl + 1)
                                  <= Abs(w * (fl + 1) - bx * h) * fl)>>

None == "None"

\* get_exif_data(img).  img.exif.state is "ok" when img._getexif() returns
\* the tags, "none" when the image has no _getexif or it returns nothing,
\* and "raises" when reading the tags raises; a tag not there is None.
GetExifData(img) ==
    LET exif == img.exif
        has(tag) == exif.state = "ok" /\ exif[tag] # None
    IN  [DateTimeCreated  |-> IF has("DateTime") THEN exif.DateTime ELSE None,
         DateTimeOriginal |-> IF has("DateTimeOriginal") THEN exif.DateTimeOriginal
                              ELSE IF has("DateTimeDigitized") THEN exif.DateTimeDigitized
                              ELSE None,
         Width  |-> img.width,
         Height |-> img.height]

\* Lines 246-247 with 'and' for 'or'
NeedsResizeBoth(img, limit) ==
    limit /\ (img.width > FullsizeLimitW /\ img.height > FullsizeLimitH)

\* Lines 246-247: whether the full-size image is scaled down
NeedsResize(img, limit) ==
    limit /\ (img.width > FullsizeLimitW \/ img.height > FullsizeLimitH)

\* Lines 235-255: the image object that is saved as the full-size file.
\* info says whether the object still carries what the decoder read beside
\* the pixels (a copy keeps it, a fresh Image.new does not).
Transform(img, limit, remove) ==
    LET size == IF NeedsResize(img, limit)
                THEN Thumbnail(img.width, img.height, FullsizeLimitW, FullsizeLimitH)
                ELSE <<img.width, img.height>>
    IN  [width   |-> size[1],
         height  |-> size[2],
         mode    |-> IF remove \/ img.mode \in {"RGBA", "P"} THEN "RGB" ELSE img.mode,
         info    |-> ~remove,
         resized |-> NeedsResize(img, limit)]

\* Lines 265-266: the thumbnail of the processed image
MakeThumbnail(p) ==
    LET size == Thumbnail(p.width, p.height, ThumbnailSize, ThumbnailSize)
    IN  [width |-> size[1], height |-> size[2], mode |-> p.mode, info |-> p.info]

(***************************************************************************)
(* process_image                                                           *)
(*                                                                         *)
(* A row is [name, url].  name is the 'File Name' cell: [isstr, s], a str  *)
(* with characters s, or (isstr = FALSE) the float nan pandas gives an     *)
(* empty cell, which prints as s = "nan".  url stands for the 'Image: URL' *)
(* cell by what one GET of it gives:                                       *)
(*   raises       "none", "RequestException" or "other"                    *)
(*   status_code  the status of the response                               *)
(*   empty        the body has no bytes                                    *)
(*   ctype_image  the Content-Type header starts with 'image/'             *)
(*   magic        "FFD8", "89PNG", "GIF" or "other": how the body starts   *)
(*   check        "ok" or "raises": whether reading the header and the     *)
(*                first bytes (lines 207-213) raises an exception          *)
(*   decode       "ok", "IOError" or "other": what decoding the body does  *)
(*   img          the decoded image [width, height, mode, exif]            *)
(***************************************************************************)
\* traceback.format_exc(): a header, the frames and the exception, each
\* ended by a line feed
FormatExc(e) == <<"Traceback (most recent call last):", LF, "<frames>", LF, e, LF>>

\* Line 283
UnexpectedError(e) == <<"Unexpected error: ", e, LF, "Traceback: ">> \o FormatExc(e)

\* Line 196 with every 2xx status let through
HttpOk2xx(status_code) == status_code \in 200..299

\* Line 196
HttpOk(status_code) == status_code = 200

\* Lines 206-217 with the handler of lines 215-217 turning the record down
NotAnImageOrError(url) ==
    \/ url.check = "raises"
    \/ ~url.ctype_image /\ url.magic \notin {"FFD8", "89PNG", "GIF"}

\* Lines 206-217: whether the response is turned down as not an image; an
\* exception raised inside the check is passed over (lines 215-217)
NotAnImage(url) ==
    /\ url.check = "ok"
    /\ ~url.ctype_image /\ url.magic \notin {"FFD8", "89PNG", "GIF"}

\* What process_image returns when it fails with msg, and the full-size
\* file it has saved by then, if any
Failure(msg, full) ==
    [ok |-> FALSE, error_msg |-> msg, exif_info |-> None, status |-> None,
     original_size |-> None, full |-> full, thumb |-> <<>>]

\* The file an image object is saved as
Saved(filename, im) ==
    [name |-> filename, width |-> im.width, height |-> im.height, info |-> im.info]

\* Lines 221-276 with get_exif_data called on the processed image, which has
\* the size it is saved with and, being a copy, no _getexif
OpenedImageExifLast(filename, original_filename, img, limit, remove, dsk) ==
    LET processed_img == Transform(img, limit, remove)
        exif_data == GetExifData([width |-> processed_img.width,
                                  height |-> processed_img.height,
                                  exif |-> [state |-> "none"]])
        exif_info == [FileName         |-> filename,
                      OriginalFileName |-> original_filename,
                      Width            |-> exif_data.Width,
                      Height           |-> exif_data.Height,
                      DateTimeCreated  |-> exif_data.DateTimeCreated,
                      DateTimeOriginal |-> exif_data.DateTimeOriginal]
        original_size == ToStr(img.width) \o <<"x">> \o ToStr(img.height)
    IN  IF dsk = "full_fails"
        THEN Failure(<<"Error saving fullsize image: ", "<e>">>, <<>>)
        ELSE IF dsk = "thumb_fails"
        THEN Failure(<<"Error saving thumbnail: ", "<e>">>,
                     <<Saved(filename, processed_img)>>)
        ELSE [ok |-> TRUE, error_msg |-> None, exif_info |-> exif_info,
              status |-> IF processed_img.resized THEN "resized" ELSE "original size",
              original_size |-> original_size,
              full  |-> <<Saved(filename, processed_img)>>,
              thumb |-> <<Saved(filename, MakeThumbnail(processed_img))>>]

\* Lines 221-276: the body of 'with Image.open(...) as img', the disk
\* answering the two saves as dsk says ("ok", "full_fails", "thumb_fails")
OpenedImage(filename, original_filename, img, limit, remove, dsk) ==
    LET exif_data == GetExifData(img)
        exif_info == [FileName         |-> filename,
                      OriginalFileName |-> original_filename,
                      Width            |-> exif_data.Width,
                      Height           |-> exif_data.Height,
                      DateTimeCreated  |-> exif_data.DateTimeCreated,
                      DateTimeOriginal |-> exif_data.DateTimeOriginal]
        original_size == ToStr(img.width) \o <<"x">> \o ToStr(img.height)
        processed_img == Transform(img, limit, remove)
    IN  IF dsk = "full_fails"
        THEN Failure(<<"Error saving fullsize image: ", "<e>">>, <<>>)
        ELSE IF dsk = "thumb_fails"
        THEN Failure(<<"Error saving thumbnail: ", "<e>">>,
                     <<Saved(filename, processed_img)>>)
        ELSE [ok |-> TRUE, error_msg |-> None, exif_info |-> exif_info,
              status |-> IF processed_img.resized THEN "resized" ELSE "original size",
              original_size |-> original_size,
              full  |-> <<Saved(filename, processed_img)>>,
              thumb |-> <<Saved(filename, MakeThumbnail(processed_img))>>]

\* Lines 192-279 with the check of the empty body (line 199) put before the
\* check of the status code (line 195)
FetchedEmptyFirst(url, filename, original_filename, limit, remove, dsk) ==
    IF url.raises = "RequestException"
    THEN Failure(<<"Network error: ", "<e>">>, <<>>)
    ELSE IF url.raises # "none"
    THEN Failure(UnexpectedError("<e>"), <<>>)
    ELSE IF url.empty
    THEN Failure(<<"Empty response from server">>, <<>>)
    ELSE IF ~HttpOk(url.status_code)
    THEN Failure(<<"HTTP error: status code ">> \o ToStr(url.status_code), <<>>)
    ELSE IF NotAnImage(url)
    THEN Failure(<<"Response is not an image (Content-Type: ", "<content_type>", ")">>, <<>>)
    ELSE IF url.decode = "IOError"
    THEN Failure(<<"Image processing error: ", "<e>">>, <<>>)
    ELSE IF url.decode # "ok"
    THEN Failure(UnexpectedError("<e>"), <<>>)
    ELSE OpenedImage(filename, original_filename, url.img, limit, remove, dsk)

\* Lines 192-279: fetch, check and decode the response, then handle the image
Fetched(url, filename, original_filename, limit, remove, dsk) ==
    IF url.raises = "RequestException"
    THEN Failure(<<"Network error: ", "<e>">>, <<>>)
    ELSE IF url.raises # "none"
    THEN Failure(UnexpectedError("<e>"), <<>>)
    ELSE IF ~HttpOk(url.status_code)
    THEN Failure(<<"HTTP error: status code ">> \o ToStr(url.status_code), <<>>)
    ELSE IF url.empty
    THEN Failure(<<"Empty response from server">>, <<>>)
    ELSE IF NotAnImage(url)
    THEN Failure(<<"Response is not an image (Content-Type: ", "<content_type>", ")">>, <<>>)
    ELSE IF url.decode = "IOError"
    THEN Failure(<<"Image processing error: ", "<e>">>, <<>>)
    ELSE IF url.decode # "ok"
    THEN Failure(UnexpectedError("<e>"), <<>>)
    ELSE OpenedImage(filename, original_filename, url.img, limit, remove, dsk)

\* process_image(row, fullsize_dir, thumbnail_dir) with the configuration
\* (add, limit, remove) and self.sequence_dict = dict: what it returns
\* (out), the dictionary it leaves and the number of GETs it made.
\* A 'File Name' that is no str has no replace method (line 185).
ProcessImage(row, add, limit, remove, dict, dsk) ==
    IF ~row.name.isstr
    THEN [out |-> Failure(UnexpectedError("AttributeError"), <<>>), dict |-> dict, gets |-> 0]
    ELSE LET d == DeriveFilename(row.name.s, add, dict)
         IN  [out  |-> Fetched(row.url, d.name, row.name.s, limit, remove, dsk),
              dict |-> d.dict,
              gets |-> 1]

(***************************************************************************)
(* run                                                                     *)
(***************************************************************************)
RequiredColumns == {"File Name", "Image: URL"}

\* Lines 52-57
FullsizeFolderName(limit, remove) ==
    IF limit
    THEN IF remove THEN "4K-size-exifremoved" ELSE "4K-size"
    ELSE IF remove THEN "submitted-size-exifremoved" ELSE "submitted-size"

ThumbnailFolderName(remove) == IF remove THEN "thumbnails-exifremoved" ELSE "thumbnails"

\* self.progress_update.emit(value, message, color)
ProgressUpdate(value, message, color) ==
    [sig |-> "progress_update", value |-> value, message |-> message, color |-> color]

\* self.processing_complete.emit(ok, message)
ProcessingComplete(ok, message) ==
    [sig |-> "processing_complete", ok |-> ok, message |-> message]

\* int((i + 1) * 100 / total_images)
PercentOneBased(k, total_images) == ((k + 1) * 100) \div total_images

\* int(i * 100 / total_images)
Percent(k, total_images) == (k * 100) \div total_images

\* Lines 119-123 with True for False at line 123
CriticalErrorOk(e) ==
    << ProgressUpdate(100, <<"Critical error: ", e>>, "red"),
       ProgressUpdate(100, <<"Traceback: ">> \o FormatExc(e), "red"),
       ProcessingComplete(TRUE, <<"Error: ", e>>) >>

\* Lines 119-123 with the completion signal emitted first
CriticalErrorEarly(e) ==
    << ProcessingComplete(FALSE, <<"Error: ", e>>),
       ProgressUpdate(100, <<"Critical error: ", e>>, "red"),
       ProgressUpdate(100, <<"Traceback: ">> \o FormatExc(e), "red") >>

\* Lines 119-123: what the handler of run() emits
CriticalError(e) ==
    << ProgressUpdate(100, <<"Critical error: ", e>>, "red"),
       ProgressUpdate(100, <<"Traceback: ">> \o FormatExc(e), "red"),
       ProcessingComplete(FALSE, <<"Error: ", e>>) >>

\* k/total as the messages print it
OutOf(k, total_images) == ToStr(k) \o <<"/">> \o ToStr(total_images)

\* Lines 103 and 114 with the test left out
HasFailuresAlways(failed) == TRUE

\* Lines 103 and 114: 'if failed_images'
HasFailures(failed) == failed # <<>>

\* Lines 113-115
SuccessMessage(successes, total_images, failed) ==
    <<"Successfully processed ">> \o ToStr(successes) \o <<" of ">>
    \o ToStr(total_images) \o <<" images">>
    \o (IF HasFailures(failed) THEN <<" (">> \o ToStr(Len(failed)) \o <<" failed)">>
        ELSE <<>>)

\* write_exif_csv: the header, then one row per entry of exif_data_list, in
\* the order of fieldnames; csv writes None as the empty string.
CsvValue(v) == IF v = None THEN "" ELSE v

CsvRow(data) ==
    << data.FileName, data.OriginalFileName, data.Width, data.Height,
       CsvValue(data.DateTimeCreated), CsvValue(data.DateTimeOriginal) >>

CsvHeader ==
    <<"FileName", "OriginalFileName", "Width", "Height", "DateTimeCreated", "DateTimeOriginal">>

WriteExifCsv(list) == <<CsvHeader>> \o [k \in 1..Len(list) |-> CsvRow(list[k])]

\* Lines 105-107: the text written to processing_errors.txt
RECURSIVE ErrorLogText(_)
ErrorLogText(failed) ==
    IF failed = <<>>
    THEN <<"The following images failed to process:", LF>>
    ELSE LET n == Len(failed)
         IN  ErrorLogText(SubSeq(failed, 1, n - 1))
             \o failed[n].img \o <<": ">> \o failed[n].err \o <<LF>>

NoFile == <<>>
File(content, complete) == <<[content |-> content, complete |-> complete]>>

EmptyDisk == [dirs |-> {}, full |-> {}, thumb |-> {}, csv |-> NoFile, log |-> NoFile]

\* Saving a file replaces the file of that name
Save(files, new) ==
    IF new = <<>> THEN files
    ELSE {f \in files : f.name # new[1].name} \cup {new[1]}

Emit(sigs) == signals' = signals \o sigs

\* The check of line 47 with 'and' for 'or'
MissingRequiredBoth(columns) == "File Name" \notin columns /\ "Image: URL" \notin columns

\* Line 47: 'File Name' not in df.columns or 'Image: URL' not in df.columns
MissingRequired(columns) == "File Name" \notin columns \/ "Image: URL" \notin columns

\* Lines 41-63: read the table, check its columns, make the two folders.
\* \E mk: whether the two mkdir calls go through.
Begin ==
    /\ pc = "idle"
    /\ \E mk \in {"ok", "fullsize_fails", "thumbnail_fails"} :
        LET fullsize_dir  == FullsizeFolderName(limit_size, remove_exif)
            thumbnail_dir == ThumbnailFolderName(remove_exif)
            rejected      == MissingRequired(csv.columns)
            raised        == ~csv.readable \/ (~rejected /\ mk # "ok")
        IN  /\ pc' = IF raised \/ rejected THEN "done" ELSE "loop"
            /\ Emit(IF ~csv.readable THEN CriticalError("<read_csv>")
                    ELSE IF rejected
                    THEN <<ProcessingComplete(FALSE,
                             <<"CSV file missing required columns: 'File Name' and 'Image: URL'">>)>>
                    ELSE IF mk # "ok" THEN CriticalError("<mkdir>")
                    ELSE <<>>)
            /\ disk' = [disk EXCEPT !.dirs =
                          IF ~csv.readable \/ rejected \/ mk = "fullsize_fails" THEN @
                          ELSE IF mk = "thumbnail_fails" THEN @ \cup {fullsize_dir}
                          ELSE @ \cup {fullsize_dir, thumbnail_dir}]
    /\ UNCHANGED <<csv, limit_size, remove_exif, add_sequence, sequence_dict, i,
                   exif_data_list, failed_images, fetched, call, ret,
                   gui>>

\* Line 87
RecordSuccess(list, out) == Append(list, out.exif_info)

\* Line 95 with the entry put in front
RecordFailureFront(list, row, out) == <<[img |-> row.name.s, err |-> out.error_msg]>> \o list

\* Line 95
RecordFailure(list, row, out) == Append(list, [img |-> row.name.s, err |-> out.error_msg])

\* Lines 77-81
BasicUpdate(k, total_images, row) ==
    ProgressUpdate(Percent(k, total_images),
        <<"Processing image ">> \o OutOf(k + 1, total_images) \o <<": ">> \o row.name.s,
        "black")

\* Lines 90-92 and 96-97
OutcomeUpdate(k, total_images, row, out) ==
    IF out.ok
    THEN ProgressUpdate(Percent(k, total_images),
             <<"Processed ">> \o OutOf(k + 1, total_images) \o <<": ">>
             \o out.exif_info.FileName \o <<" (">> \o out.original_size
             \o <<", ", out.status, ")">>, "green")
    ELSE ProgressUpdate(Percent(k, total_images),
             <<"Failed to process ">> \o OutOf(k + 1, total_images) \o <<": ">>
             \o row.name.s \o <<" - ">> \o out.error_msg, "red")

\* Lines 75-97: one turn of the loop.  \E dsk: how the disk answers the saves.
ProcessRecord ==
    /\ pc = "loop"
    /\ i < Len(csv.rows)
    /\ \E dsk \in {"ok", "full_fails", "thumb_fails"} :
       \E r \in {ProcessImage(csv.rows[i + 1], add_sequence, limit_size, remove_exif,
                              sequence_dict, dsk)} :
            /\ Emit(<< BasicUpdate(i, Len(csv.rows), csv.rows[i + 1]),
                       OutcomeUpdate(i, Len(csv.rows), csv.rows[i + 1], r.out) >>)
            /\ sequence_dict' = r.dict
            /\ fetched' = fetched + r.gets
            /\ exif_data_list' = IF r.out.ok THEN RecordSuccess(exif_data_list, r.out)
                                 ELSE exif_data_list
            /\ failed_images' = IF r.out.ok THEN failed_images
                                ELSE RecordFailure(failed_images, csv.rows[i + 1], r.out)
            /\ disk' = [disk EXCEPT !.full = Save(@, r.out.full),
                                    !.thumb = Save(@, r.out.thumb)]
    /\ i' = i + 1
    /\ UNCHANGED <<pc, csv, limit_size, remove_exif, add_sequence, call, ret,
                   gui>>

\* Lines 99-117: write the two reports and emit the completion signal.
\* \E wr: whether the writes go through; a file whose open succeeded is
\* left as far as it was written.
Finish ==
    /\ pc = "loop"
    /\ i = Len(csv.rows)
    /\ \E wr \in {"ok", "csv_open_fails", "csv_write_fails", "log_open_fails", "log_write_fails"} :
        LET total_images == Len(csv.rows)
            csv_raised == wr \in {"csv_open_fails", "csv_write_fails"}
            log_raised == HasFailures(failed_images)
                          /\ wr \in {"log_open_fails", "log_write_fails"}
            summary    == ProgressUpdate(100,
                              <<"Completed with ">> \o ToStr(Len(failed_images))
                              \o <<" errors. See ", "processing_errors.txt", " for details.">>,
                              "red")
        IN  /\ disk' = [disk EXCEPT
                 !.csv = IF wr = "csv_open_fails" THEN @
                         ELSE IF wr = "csv_write_fails" THEN File(<<CsvHeader>>, FALSE)
                         ELSE File(WriteExifCsv(exif_data_list), TRUE),
                 !.log = IF csv_raised \/ ~HasFailures(failed_images) \/ wr = "log_open_fails"
                         THEN @
                         ELSE IF wr = "log_write_fails"
                         THEN File(ErrorLogText(<<>>), FALSE)
                         ELSE File(ErrorLogText(failed_images), TRUE)]
            /\ Emit(IF csv_raised THEN CriticalError("<write_exif_csv>")
                    ELSE IF log_raised THEN CriticalError("<open>")
                    ELSE (IF HasFailures(failed_images) THEN <<summary>> ELSE <<>>)
                         \o <<ProcessingComplete(TRUE,
                                SuccessMessage(Len(exif_data_list), total_images,
                                               failed_images))>>)
    /\ pc' = "done"
    /\ UNCHANGED <<csv, limit_size, remove_exif, add_sequence, sequence_dict, i,
                   exif_data_list, failed_images, fetched, call, ret,
                   gui>>

(***************************************************************************)
(* Inputs                                                                  *)
(***************************************************************************)
MaxRows == 2        \* rows of an input table
MaxProgressRows == 7  \* rows of an input table of the longer runs
MaxNameLen == 3     \* characters of a raw file name given to DeriveFilename
MaxPrior == 10      \* earlier records of the same identifier
DimSlack == 1       \* pixels around the full-size limit

Str(s) == [isstr |-> TRUE, s |-> s]
NaN == [isstr |-> FALSE, s |-> <<"n", "a", "n">>]

Exif(state, dt, dto, dtd) ==
    [state |-> state, DateTime |-> dt, DateTimeOriginal |-> dto, DateTimeDigitized |-> dtd]

Exifs ==
    {Exif("none", None, None, None), Exif("raises", None, None, None)}
    \cup {Exif("ok", dt, dto, dtd) :
            dt \in {None, "2001:01:01"}, dto \in {None, "2002:02:02"},
            dtd \in {None, "2003:03:03"}}

Img(w, h, mode, exif) == [width |-> w, height |-> h, mode |-> mode, exif |-> exif]

Url(raises, status_code, empty, ctype_image, magic, decode, img) ==
    [raises |-> raises, status_code |-> status_code, empty |-> empty,
     ctype_image |-> ctype_image, magic |-> magic, check |-> "ok", decode |-> decode,
     img |-> img]

\* The response u when the content check itself raises
CheckRaises(u) == [u EXCEPT !.check = "raises"]

SmallJpeg == Img(1000, 800, "RGB", Exif("ok", "2001:01:01", "2002:02:02", None))

UrlImage(img) == Url("none", 200, FALSE, TRUE, "FFD8", "ok", img)
UrlStatus(n)  == Url("none", n, FALSE, TRUE, "FFD8", "ok", SmallJpeg)
UrlDown       == Url("RequestException", 0, TRUE, FALSE, "other", "ok", SmallJpeg)

\* The tables of the runs: every sequence of at most MaxRows rows
BatchNames ==
    { Str(<<"1", "a">>), Str(<<"1", "-", " ", "b", ".", "j">>), Str(<<"2", "/", "c">>),
      Str(<<"x", DQ>>), Str(<<"1", LF, "e">>), NaN }

BatchUrls == {UrlImage(SmallJpeg), UrlStatus(404), UrlDown}

BatchRows == [name : BatchNames, url : BatchUrls]

Tables == UNION {[1..n -> BatchRows] : n \in 0..MaxRows}

Csvs ==
    {[readable |-> FALSE, columns |-> {}, rows |-> <<>>]}
    \cup [readable : {TRUE}, columns : SUBSET RequiredColumns, rows : Tables]

NoCall == <<>>

\* No window: the thread is run on its own
NoGui == <<>>

Init ==
    /\ pc = "idle"
    /\ csv \in Csvs
    /\ limit_size \in BOOLEAN
    /\ remove_exif \in BOOLEAN
    /\ add_sequence \in BOOLEAN
    /\ sequence_dict = <<>>
    /\ i = 0
    /\ exif_data_list = <<>>
    /\ failed_images = <<>>
    /\ signals = <<>>
    /\ disk = EmptyDisk
    /\ fetched = 0
    /\ call = NoCall
    /\ ret = NoCall
    /\ gui = NoGui

Next == Begin \/ ProcessRecord \/ Finish

Spec == Init /\ [][Next]_vars

(***************************************************************************)
(* Longer runs: tables of up to MaxProgressRows rows, each an image whose  *)
(* saves go through or not, under the options the window starts with      *)
(***************************************************************************)
ProgressRows == [name : {Str(<<"1", "a">>)}, url : {UrlImage(SmallJpeg)}]

ProgressTables == UNION {[1..n -> ProgressRows] : n \in 0..MaxProgressRows}

InitProgress ==
    /\ pc = "idle"
    /\ csv \in [readable : {TRUE}, columns : {RequiredColumns}, rows : ProgressTables]
    /\ limit_size = TRUE
    /\ remove_exif = TRUE
    /\ add_sequence = FALSE
    /\ sequence_dict = <<>>
    /\ i = 0
    /\ exif_data_list = <<>>
    /\ failed_images = <<>>
    /\ signals = <<>>
    /\ disk = EmptyDisk
    /\ fetched = 0
    /\ call = NoCall
    /\ ret = NoCall
    /\ gui = NoGui

SpecProgress == InitProgress /\ [][Next]_vars

(***************************************************************************)
(* process_image on its own: one call, its arguments drawn from larger     *)
(* sets than the tables of Spec hold                                       *)
(***************************************************************************)
Alphabet == Forbidden \cup {"1", "a", "-", " ", ".", LF}

RawNames == UNION {[1..n -> Alphabet] : n \in 0..MaxNameLen}

\* self.sequence_dict after n earlier records of the identifier of name
DictAfter(name, n) ==
    IF n = 0 THEN <<>>
    ELSE [k \in {ReMatch(RemoveQuotes(name)).id_num} |-> n + 1]

Priors(name) == IF ReMatch(RemoveQuotes(name)).matched THEN 0..MaxPrior ELSE {0}

Statuses == {100, 199, 200, 201, 204, 206, 299, 300, 301, 404, 500}

ResponsesChecked ==
    {Url(raises, status_code, empty, ctype_image, magic, decode, SmallJpeg) :
        raises \in {"none", "RequestException", "other"}, status_code \in Statuses,
        empty \in BOOLEAN, ctype_image \in BOOLEAN,
        magic \in {"FFD8", "89PNG", "GIF", "other"}, decode \in {"ok", "IOError", "other"}}

Responses == ResponsesChecked \cup {CheckRaises(u) : u \in ResponsesChecked}

Widths  == {1, 1000, 5000} \cup ((FullsizeLimitW - DimSlack)..(FullsizeLimitW + DimSlack))
Heights == {1, 800, 3000} \cup ((FullsizeLimitH - DimSlack)..(FullsizeLimitH + DimSlack))

Images == {Img(w, h, mode, exif) : w \in Widths, h \in Heights, mode \in {"RGB", "RGBA"},
                                   exif \in Exifs}

DiskAnswers == {"ok", "full_fails", "thumb_fails"}

Call(row, add, limit, remove, dict, dsk) ==
    [row |-> row, add |-> add, limit |-> limit, remove |-> remove, dict |-> dict, dsk |-> dsk]

\* Every raw name, with an image that is saved
InitNames ==
    \E s \in RawNames, add \in BOOLEAN : \E n \in Priors(s) :
        call = Call([name |-> Str(s), url |-> UrlImage(SmallJpeg)], add, TRUE, TRUE,
                    DictAfter(s, n), "ok")

\* Every response
InitResponses ==
    \E name \in {Str(<<"1", "/", "a", ".", "j">>), NaN}, url \in Responses, dsk \in DiskAnswers :
        call = Call([name |-> name, url |-> url], TRUE, TRUE, TRUE, <<>>, dsk)

\* Every image
InitImages ==
    \E img \in Images, limit \in BOOLEAN, remove \in BOOLEAN, dsk \in DiskAnswers :
        call = Call([name |-> Str(<<"1", "/", "a", ".", "j">>), url |-> UrlImage(img)],
                    FALSE, limit, remove, <<>>, dsk)

InitImage ==
    /\ pc = "idle"
    /\ csv = [readable |-> TRUE, columns |-> RequiredColumns, rows |-> <<>>]
    /\ limit_size = TRUE
    /\ remove_exif = TRUE
    /\ add_sequence = FALSE
    /\ sequence_dict = <<>>
    /\ i = 0
    /\ exif_data_list = <<>>
    /\ failed_images = <<>>
    /\ signals = <<>>
    /\ disk = EmptyDisk
    /\ fetched = 0
    /\ InitNames \/ InitResponses \/ InitImages
    /\ ret = NoCall
    /\ gui = NoGui

CallProcessImage ==
    /\ call # NoCall
    /\ ret = NoCall
    /\ ret' = <<ProcessImage(call.row, call.add, call.limit, call.remove, call.dict, call.dsk)>>
    /\ UNCHANGED <<pc, csv, limit_size, remove_exif, add_sequence, sequence_dict, i,
                   exif_data_list, failed_images, signals, disk, fetched, call,
                   gui>>

\* process_image called again by the same thread, the 'File Name' of the row
\* being the output file name the first call derived
CallAgain ==
    /\ Len(ret) = 1
    /\ ret[1].out.ok
    /\ ret' = Append(ret, ProcessImage([name |-> Str(ret[1].out.exif_info.FileName),
                                        url  |-> call.row.url],
                                       call.add, call.limit, call.remove, ret[1].dict,
                                       call.dsk))
    /\ UNCHANGED <<pc, csv, limit_size, remove_exif, add_sequence, sequence_dict, i,
                   exif_data_list, failed_images, signals, disk, fetched, call,
                   gui>>

NextImage == CallProcessImage \/ CallAgain

SpecImage == InitImage /\ [][NextImage]_vars

(***************************************************************************)
(* The window PSNZImageProcessor.  gui is the state of the GUI thread:     *)
(*   csv_path, output_dir   self.csv_path, self.output_dir (None at first) *)
(*   limit_size_cb, remove_exif_cb, add_sequence_cb   isChecked()          *)
(*   enabled       the controls that are enabled                           *)
(*   dialog        the modal dialog that is open: "none", "file", "dir",   *)
(*                 "warning" (QMessageBox.warning of select_csv) or        *)
(*                 "finished" (the message box of processing_finished)     *)
(*   progress_bar  self.progress_bar.value()                               *)
(*   thread        the arguments self.processor_thread was made with       *)
(*   delivered     how many signals of that thread the slots have handled  *)
(*   in_flight     threads started whose completion no slot has handled    *)
(* The worker thread is pc, csv, ..., fetched, and runs Begin,             *)
(* ProcessRecord and Finish.  A modal dialog keeps the user from the       *)
(* window but runs an event loop, so signals are handled while it is open. *)
(***************************************************************************)
MaxThreads == 2     \* threads in flight the model can count

Controls ==
    {"process_button", "csv_button", "output_button",
     "limit_size_cb", "remove_exif_cb", "add_sequence_cb"}

CheckBoxes == {"limit_size_cb", "remove_exif_cb", "add_sequence_cb"}

\* The files a user can pick and what read_csv gives for each
GoodRows(names) ==
    [k \in 1..Len(names) |-> [name |-> Str(names[k]), url |-> UrlImage(SmallJpeg)]]

FileContent(path) ==
    CASE path = "entries.csv" ->
            [readable |-> TRUE, columns |-> RequiredColumns,
             rows |-> GoodRows(<< <<"1", "a">>, <<"1", "-", " ", "b", ".", "j">> >>)]
      [] path = "other.csv" ->
            [readable |-> TRUE, columns |-> RequiredColumns,
             rows |-> GoodRows(<< <<"1", "c">> >>)]
      [] path = "bad.csv" ->
            [readable |-> TRUE, columns |-> {"Image: URL"}, rows |-> <<>>]

CsvFiles == {"entries.csv", "other.csv", "bad.csv"}

\* os.path.dirname of every file of CsvFiles, and another directory
CsvDir == "/in"
Dirs == {CsvDir, "/out"}

\* Lines 298-383: the window after __init__
InitGui ==
    [csv_path |-> None, output_dir |-> None,
     limit_size_cb |-> TRUE, remove_exif_cb |-> TRUE, add_sequence_cb |-> FALSE,
     enabled |-> Controls \ {"process_button"},
     dialog |-> "none", progress_bar |-> 0,
     thread |-> None, delivered |-> 0, in_flight |-> 0]

\* Lines 427-429: update_process_button on window g
UpdateProcessButton(g) ==
    [g EXCEPT !.enabled = IF g.csv_path # None /\ g.output_dir # None
                          THEN @ \cup {"process_button"}
                          ELSE @ \ {"process_button"}]

WorkerUnchanged ==
    UNCHANGED <<pc, csv, limit_size, remove_exif, add_sequence, sequence_dict, i,
                exif_data_list, failed_images, signals, disk, fetched, call, ret>>

\* A click on a control reaches its slot when the control is enabled and no
\* modal dialog is open
CanClick(control) == control \in gui.enabled /\ gui.dialog = "none"

\* Line 387 and line 419: a click on a Browse button opens its dialog
ClickBrowse ==
    /\ \E b \in {"csv_button", "output_button"} :
          /\ CanClick(b)
          /\ gui' = [gui EXCEPT !.dialog = IF b = "csv_button" THEN "file" ELSE "dir"]
    /\ WorkerUnchanged

\* Lines 390-412: the file dialog returns file_path (None: cancelled)
FileDialogReturns ==
    /\ gui.dialog = "file"
    /\ \E file_path \in CsvFiles \cup {None} :
          gui' = IF file_path = None
                 THEN [gui EXCEPT !.dialog = "none"]
                 ELSE LET g1 == UpdateProcessButton([gui EXCEPT !.csv_path = file_path])
                          g2 == IF g1.output_dir = None
                                THEN [g1 EXCEPT !.output_dir = CsvDir]
                                ELSE g1
                      IN  [g2 EXCEPT !.dialog =
                              IF MissingRequired(FileContent(file_path).columns)
                              THEN "warning" ELSE "none"]
    /\ WorkerUnchanged

\* Lines 422-425: the directory dialog returns dir_path (None: cancelled)
DirDialogReturns ==
    /\ gui.dialog = "dir"
    /\ \E dir_path \in Dirs \cup {None} :
          gui' = IF dir_path = None
                 THEN [gui EXCEPT !.dialog = "none"]
                 ELSE UpdateProcessButton([gui EXCEPT !.output_dir = dir_path,
                                                      !.dialog = "none"])
    /\ WorkerUnchanged

\* The user closes the message box of line 409 or of lines 506 and 515
CloseMessageBox ==
    /\ gui.dialog \in {"warning", "finished"}
    /\ gui' = [gui EXCEPT !.dialog = "none"]
    /\ WorkerUnchanged

\* The user ticks or unticks a check box
Toggle ==
    /\ \E cb \in CheckBoxes :
          /\ CanClick(cb)
          /\ gui' = [gui EXCEPT ![cb] = ~@]
    /\ WorkerUnchanged

\* Lines 28-38 with sequence_dict shared by the threads (a class attribute)
\* and not made anew by __init__
NewThreadSharedDict(csv_path, output_dir, limit, remove, add) ==
    [csv_path |-> csv_path, output_dir |-> output_dir, limit_size |-> limit,
     remove_exif |-> remove, add_sequence |-> add, sequence_dict |-> sequence_dict]

\* Lines 28-38: ImageProcessorThread(csv_path, output_dir, limit_size,
\* remove_exif, add_sequence)
NewThread(csv_path, output_dir, limit, remove, add) ==
    [csv_path |-> csv_path, output_dir |-> output_dir, limit_size |-> limit,
     remove_exif |-> remove, add_sequence |-> add, sequence_dict |-> <<>>]

\* Lines 460-465 without line 460
DisabledButProcessButton == Controls \ {"process_button"}

\* Lines 460-465: the controls process_images disables
DisabledWhileProcessing == Controls

\* Lines 431-470: process_images, the slot of the Process button.  The new
\* thread takes the place of self.processor_thread and is started; it reads
\* the file at csv_path when it runs.
ProcessImages ==
    /\ CanClick("process_button")
    /\ gui.in_flight < MaxThreads
    /\ IF gui.csv_path = None \/ gui.output_dir = None
       THEN UNCHANGED <<pc, csv, limit_size, remove_exif, add_sequence, sequence_dict, i,
                        exif_data_list, failed_images, signals, disk, fetched, gui>>
       ELSE \E t \in {NewThread(gui.csv_path, <<gui.output_dir, gui.csv_path>>,
                                gui.limit_size_cb, gui.remove_exif_cb,
                                gui.add_sequence_cb)} :
               /\ pc' = "idle"
               /\ csv' = FileContent(t.csv_path)
               /\ limit_size' = t.limit_size
               /\ remove_exif' = t.remove_exif
               /\ add_sequence' = t.add_sequence
               /\ sequence_dict' = t.sequence_dict
               /\ i' = 0
               /\ exif_data_list' = <<>>
               /\ failed_images' = <<>>
               /\ signals' = <<>>
               /\ disk' = EmptyDisk
               /\ fetched' = 0
               /\ gui' = [gui EXCEPT !.thread = [csv_path |-> t.csv_path,
                                                 output_dir |-> t.output_dir],
                                     !.enabled = @ \ DisabledWhileProcessing,
                                     !.delivered = 0,
                                     !.in_flight = @ + 1]
    /\ UNCHANGED <<call, ret>>

\* Lines 472-486 and 488-515: the slot of the next signal of the thread,
\* update_progress or processing_finished, run by the GUI thread
Deliver ==
    /\ gui.delivered < Len(signals)
    /\ \E e \in {signals[gui.delivered + 1]} :
          gui' = IF e.sig = "progress_update"
                 THEN [gui EXCEPT !.delivered = @ + 1, !.progress_bar = e.value]
                 ELSE [gui EXCEPT !.delivered = @ + 1,
                                  !.enabled = Controls,
                                  !.dialog = "finished",
                                  !.in_flight = @ - 1]
    /\ WorkerUnchanged

InitWindow ==
    /\ pc = "none"
    /\ csv = [readable |-> FALSE, columns |-> {}, rows |-> <<>>]
    /\ limit_size = TRUE
    /\ remove_exif = TRUE
    /\ add_sequence = FALSE
    /\ sequence_dict = <<>>
    /\ i = 0
    /\ exif_data_list = <<>>
    /\ failed_images = <<>>
    /\ signals = <<>>
    /\ disk = EmptyDisk
    /\ fetched = 0
    /\ call = NoCall
    /\ ret = NoCall
    /\ gui = InitGui

NextGui ==
    \/ ClickBrowse \/ FileDialogReturns \/ DirDialogReturns \/ CloseMessageBox
    \/ Toggle \/ ProcessImages \/ Deliver
    \/ Begin \/ ProcessRecord \/ Finish

SpecGui == InitWindow /\ [][NextGui]_vars

(***************************************************************************)
(* Properties of a run                                                     *)
(***************************************************************************)
Completions == SelectSeq(signals, LAMBDA e : e.sig = "processing_complete")

LastSignal == signals[Len(signals)]

\* The run has ended with processing_complete(True, ...)
Completed == pc = "done" /\ signals # <<>> /\ LastSignal.sig = "processing_complete"
             /\ LastSignal.ok

\* The table was read and lacks a required column
LacksColumn == csv.readable /\ ~(RequiredColumns \subseteq csv.columns)

\* The colour of the second signal of the k-th turn of the loop
Colour(k) == signals[2 * k].color

\* The names of the rows among the first k whose turn ended in colour c
RECURSIVE NamesOf(_, _)
NamesOf(k, c) ==
    IF k = 0 THEN <<>>
    ELSE NamesOf(k - 1, c) \o (IF Colour(k) = c THEN <<csv.rows[k].name.s>> ELSE <<>>)

\* The lines of a text, each ended by LF (a rest without LF is a line too)
RECURSIVE SplitLines(_)
SplitLines(text) ==
    IF text = <<>> THEN <<>>
    ELSE LET lfs == Positions(text, LF)
         IN  IF lfs = {} THEN <<text>>
             ELSE LET p == CHOOSE q \in lfs : \A r \in lfs : q <= r
                  IN  <<SubSeq(text, 1, p - 1)>> \o SplitLines(Drop(text, p))

StartsWith(s, prefix) ==
    Len(prefix) <= Len(s) /\ SubSeq(s, 1, Len(prefix)) = prefix

\* C1: a table that lacks 'File Name' or 'Image: URL' ends the run at once:
\* nothing is created on disk, no record is processed (no GET, no sequence
\* counter, no progress signal) and the only signal is one
\* processing_complete with ok = False.
C1_RejectedBeforeAnyOutput ==
    (LacksColumn /\ pc # "idle") =>
        /\ pc = "done"
        /\ disk = EmptyDisk
        /\ i = 0 /\ fetched = 0 /\ sequence_dict = <<>>
        /\ exif_data_list = <<>> /\ failed_images = <<>>
        /\ Len(signals) = 1
        /\ signals[1].sig = "processing_complete"
        /\ ~signals[1].ok

C1_Witness ==
    /\ pc = "done"
    /\ csv.readable /\ csv.columns = {"File Name"} /\ Len(csv.rows) > 0
    /\ Len(signals) = 1

\* A table with no line feed in a file name
NoLineFeed == \A k \in 1..Len(csv.rows) : Positions(csv.rows[k].name.s, LF) = {}

\* C2: whatever fails for a record, every record is processed and each
\* failed record is exactly one line '{File Name}: {error message}' of
\* processing_errors.txt, after the banner line.  Stated for the tables
\* whose file names hold no line feed, where a name cannot break a line.
C2_FailureIsolation ==
    (Completed /\ NoLineFeed) =>
        /\ i = Len(csv.rows)
        /\ HasFailures(failed_images) =>
             /\ disk.log # NoFile
             /\ SplitLines(disk.log[1].content)
                  = <<<<"The following images failed to process:">>>>
                    \o [k \in 1..Len(failed_images) |->
                          failed_images[k].img \o <<": ">> \o failed_images[k].err]

\* C3: after i records, the two lists hold i entries together, every
\* processed record is in exactly one of them, each list is in input order,
\* and the final message reports S of N and, when not zero, F failed, with
\* S + F = N.
C3_OutcomeAccounting ==
    /\ i <= Len(csv.rows)
    /\ Len(exif_data_list) + Len(failed_images) = i
    /\ pc = "loop" => Len(signals) = 2 * i
    /\ (pc = "loop" \/ Completed) =>
        /\ \A k \in 1..i : Colour(k) \in {"green", "red"}
        /\ [k \in 1..Len(exif_data_list) |-> exif_data_list[k].OriginalFileName]
              = NamesOf(i, "green")
        /\ [k \in 1..Len(failed_images) |-> failed_images[k].img] = NamesOf(i, "red")
    /\ Completed =>
        /\ Len(exif_data_list) + Len(failed_images) = Len(csv.rows)
        /\ LastSignal.message =
              <<"Successfully processed ">> \o ToStr(Len(exif_data_list)) \o <<" of ">>
              \o ToStr(Len(csv.rows)) \o <<" images">>
              \o (IF Len(failed_images) = 0 THEN <<>>
                  ELSE <<" (">> \o ToStr(Len(failed_images)) \o <<" failed)">>)

C3_Witness ==
    /\ Completed
    /\ Len(csv.rows) >= 2
    /\ Colour(1) = "red" /\ Colour(2) = "green"
    /\ Len(exif_data_list) = Len(csv.rows) - 1

\* C4: when a run completes, image_metadata.csv has been written, the
\* header and one row per success (the header alone when there is none),
\* and processing_errors.txt has been written if and only if a record
\* failed.
C4_ReportsWritten ==
    Completed =>
        /\ disk.csv # NoFile
        /\ disk.csv[1].complete
        /\ Len(disk.csv[1].content) = 1 + Len(exif_data_list)
        /\ disk.csv[1].content[1] = CsvHeader
        /\ \A k \in 1..Len(exif_data_list) :
              /\ disk.csv[1].content[k + 1][1] = exif_data_list[k].FileName
              /\ disk.csv[1].content[k + 1][2] = exif_data_list[k].OriginalFileName
              /\ disk.csv[1].content[k + 1][3] = exif_data_list[k].Width
              /\ disk.csv[1].content[k + 1][4] = exif_data_list[k].Height
        /\ (disk.log # NoFile) <=> (Len(failed_images) > 0)

C4_Witness ==
    /\ Completed
    /\ Len(csv.rows) > 0
    /\ exif_data_list = <<>>
    /\ Len(disk.csv[1].content) = 1
    /\ disk.log # NoFile

\* The decimal identifier a file name begins with, <<>> if it has none
IdOf(name) ==
    IF name.isstr
    THEN SubSeq(RemoveQuotes(name.s), 1, PrefixLen(RemoveQuotes(name.s), Digits))
    ELSE <<>>

\* The number of records among the first k that begin with identifier id
CountOf(id, k) == Cardinality({j \in 1..k : IdOf(csv.rows[j].name) = id})

\* The number of successes among the first k records
Successes(k) == Cardinality({j \in 1..k : Colour(j) = "green"})

\* C5: with add_sequence, the k-th record (failed ones counted) that begins
\* with identifier id gets a name starting '{id}-{k} ' and leaves the
\* counter of id at k + 1; counters of other identifiers are untouched, and
\* a record with no leading digit, or any record without add_sequence,
\* changes no counter.
C5_Sequencing ==
    (pc = "loop" \/ Completed) =>
        LET ids == {IdOf(csv.rows[k].name) : k \in 1..i} \ {<<>>}
        IN  /\ ~add_sequence => sequence_dict = <<>>
            /\ add_sequence =>
                /\ DOMAIN sequence_dict = ids
                /\ \A id \in ids : sequence_dict[id] = CountOf(id, i) + 1
                /\ \A k \in 1..i :
                      (Colour(k) = "green" /\ IdOf(csv.rows[k].name) # <<>>) =>
                          StartsWith(exif_data_list[Successes(k)].FileName,
                                     IdOf(csv.rows[k].name) \o <<"-">>
                                     \o ToStr(CountOf(IdOf(csv.rows[k].name), k)) \o <<" ">>)

\* C5 for the tables whose file names hold no line feed
C5_SequencingNoLineFeed == NoLineFeed => C5_Sequencing

\* C7: a run emits processing_complete exactly once, as its last signal
\* (so no progress_update follows it), however it ends; until then one of
\* Begin, ProcessRecord and Finish can be taken.
C7_OneCompletion ==
    /\ Len(Completions) = IF pc = "done" THEN 1 ELSE 0
    /\ pc = "done" => LastSignal.sig = "processing_complete"
    /\ pc # "done" => (pc = "idle" \/ (pc = "loop" /\ i <= Len(csv.rows)))

C7_Witness ==
    /\ pc = "done"
    /\ i > 0
    /\ ~LastSignal.ok
    /\ Len(signals) = 2 * i + 3

(***************************************************************************)
(* Properties of process_image                                             *)
(***************************************************************************)
Returned == ret # NoCall

Out == ret[1].out

\* The image behind the URL of the call
Source == call.row.url.img

NoForbidden(name) == \A k \in 1..Len(name) : name[k] \notin Forbidden

\* C6: the output file name, as the full-size file, the thumbnail and the
\* FileName of the report have it, holds none of \ / : * ? " < > |.
C6_NoForbiddenCharacter ==
    Returned =>
        /\ \A k \in 1..Len(Out.full) : NoForbidden(Out.full[k].name)
        /\ \A k \in 1..Len(Out.thumb) : NoForbidden(Out.thumb[k].name)
        /\ Out.ok => NoForbidden(Out.exif_info.FileName)

C6_Witness ==
    /\ Returned
    /\ Out.ok
    /\ call.add
    /\ call.row.name.s = <<"1", DQ, BSL>>
    /\ Out.exif_info.FileName = <<"1", "-", "1", " ", "_">>
    /\ Out.full[1].name = Out.exif_info.FileName
    /\ Out.thumb[1].name = Out.exif_info.FileName

\* The call got a response with a status code
GotResponse == Returned /\ call.row.name.isstr /\ call.row.url.raises = "none"

HttpError(n) == ~Out.ok /\ Out.error_msg = <<"HTTP error: status code ">> \o ToStr(n)

EmptyResponse == ~Out.ok /\ Out.error_msg = <<"Empty response from server">>

\* C8 as claimed: a response of status N fails with 'HTTP error: status code
\* N' if and only if N is outside 200..299, and a 2xx response goes on to the
\* check of the empty body.
C8_Non2xxIsHttpError ==
    GotResponse =>
        LET n == call.row.url.status_code
        IN  /\ HttpError(n) <=> n \notin 200..299
            /\ (n \in 200..299 /\ call.row.url.empty) => EmptyResponse

\* C8 as the code has it: a response of status N fails with 'HTTP error:
\* status code N' if and only if N is not 200, and a response of status 200
\* goes on to the check of the empty body.
C8_Not200IsHttpError ==
    GotResponse =>
        LET n == call.row.url.status_code
        IN  /\ HttpError(n) <=> n # 200
            /\ n = 200 => (EmptyResponse <=> call.row.url.empty)

C8_Witness ==
    /\ GotResponse
    /\ call.row.url.status_code = 204
    /\ ~call.row.url.empty
    /\ HttpError(204)

\* C9: the full-size image is scaled down, and the status is 'resized', if
\* and only if limit_size is set and the image is wider than 3840 or higher
\* than 2160; it is then at most 3840 x 2160 and one of its sides is within
\* a pixel of what the aspect ratio gives for the other; else it keeps its
\* size.
C9_ResizePolicy ==
    (Returned /\ Out.ok) =>
        LET w == Source.width
            h == Source.height
            f == Out.full[1]
            over == call.limit /\ (w > 3840 \/ h > 2160)
        IN  /\ (Out.status = "resized") <=> over
            /\ Out.status \in {"resized", "original size"}
            /\ over =>
                /\ f.width <= 3840 /\ f.height <= 2160
                /\ f.width >= 1 /\ f.height >= 1
                /\ f.width < w \/ f.height < h
                /\ \/ Abs(f.width * h - f.height * w) < h
                   \/ Abs(f.width * h - f.height * w) < w
            /\ ~over => (f.width = w /\ f.height = h)

C9_Witness ==
    /\ Returned /\ Out.ok
    /\ call.limit
    /\ Source.width = 5000 /\ Source.height = 3000
    /\ Out.status = "resized"
    /\ Out.full[1].width = 3600 /\ Out.full[1].height = 2160

\* C10: the Width, Height, DateTimeCreated and DateTimeOriginal of the
\* report row and the original size are those of the image as fetched,
\* also when the saved image was scaled down or rebuilt without metadata.
C10_MetadataBeforeTransform ==
    (Returned /\ Out.ok) =>
        LET e == Source.exif
        IN  /\ Out.exif_info.Width = Source.width
            /\ Out.exif_info.Height = Source.height
            /\ Out.exif_info.DateTimeCreated
                 = IF e.state = "ok" THEN e.DateTime ELSE None
            /\ Out.exif_info.DateTimeOriginal
                 = IF e.state # "ok" THEN None
                   ELSE IF e.DateTimeOriginal # None THEN e.DateTimeOriginal
                   ELSE e.DateTimeDigitized
            /\ Out.original_size
                 = ToStr(Source.width) \o <<"x">> \o ToStr(Source.height)

C10_Witness ==
    /\ Returned /\ Out.ok
    /\ call.remove
    /\ Out.status = "resized"
    /\ Out.full[1].width < Source.width
    /\ ~Out.full[1].info
    /\ Out.exif_info.Width = 5000
    /\ Out.exif_info.DateTimeCreated = "2001:01:01"
    /\ Out.exif_info.DateTimeOriginal = "2003:03:03"

\* C11: sanitizing is idempotent: with no sequencing, the output file name
\* derived from an output file name is that name again, for every raw name.
C11_SanitizeIdempotent ==
    (Len(ret) = 2 /\ ~call.add) =>
        /\ ret[2].out.ok
        /\ ret[2].out.exif_info.FileName = Out.exif_info.FileName
        /\ ret[2].out.full[1].name = Out.full[1].name

C11_Witness ==
    /\ Len(ret) = 2
    /\ ~call.add
    /\ call.row.name.s = <<DQ, BSL, DQ>>
    /\ Out.exif_info.FileName = <<"_">>
    /\ ret[2].out.exif_info.FileName = <<"_">>

(***************************************************************************)
(* Fatal errors                                                            *)
(***************************************************************************)
\* The handler of run() has emitted its 'Critical error' signal
Critical ==
    \E k \in 1..Len(signals) :
        /\ signals[k].sig = "progress_update"
        /\ StartsWith(signals[k].message, <<"Critical error: ">>)

\* The run has ended in a fatal error: the table was rejected or the
\* handler of run() was entered
Fatal == pc = "done" /\ (LacksColumn \/ Critical)

\* The run got as far as writing the reports (both folders were made)
ReachedReports ==
    disk.dirs = {FullsizeFolderName(limit_size, remove_exif), ThumbnailFolderName(remove_exif)}

OneFailedCompletion == Len(Completions) = 1 /\ ~Completions[1].ok

\* C12 as claimed: a run that ends in a fatal error (table rejected, table
\* unreadable, folders not created, report not written) emits one
\* processing_complete, with ok = False, and has written neither
\* image_metadata.csv nor processing_errors.txt.
C12_FatalLeavesNoReport ==
    Fatal => (OneFailedCompletion /\ disk.csv = NoFile /\ disk.log = NoFile)

\* C12 as the code has it: a run that ends in a fatal error emits one
\* processing_complete, with ok = False.  If the error came before the
\* reports (table rejected or unreadable, folders not created) neither file
\* has been written; if writing a report failed, what was written stays:
\* image_metadata.csv is missing or incomplete and processing_errors.txt
\* missing, or image_metadata.csv is complete, a record has failed and
\* processing_errors.txt is missing or incomplete.
C12_FatalBeforeReportsLeavesNone ==
    Fatal =>
        /\ OneFailedCompletion
        /\ ~ReachedReports => (disk.csv = NoFile /\ disk.log = NoFile)
        /\ ReachedReports =>
             /\ i = Len(csv.rows)
             /\ \/ /\ disk.csv = NoFile \/ ~disk.csv[1].complete
                   /\ disk.log = NoFile
                \/ /\ disk.csv = File(WriteExifCsv(exif_data_list), TRUE)
                   /\ failed_images # <<>>
                   /\ disk.log = NoFile \/ ~disk.log[1].complete

\* The error log cannot be opened after image_metadata.csv was written
C12_Witness ==
    /\ Fatal
    /\ OneFailedCompletion
    /\ Len(exif_data_list) = 1 /\ Len(failed_images) = 1
    /\ disk.csv # NoFile /\ disk.csv[1].complete
    /\ Len(disk.csv[1].content) = 2
    /\ disk.log = NoFile

(***************************************************************************)
(* The stages of process_image                                             *)
(***************************************************************************)
Stages == <<"fetch", "status", "empty", "content", "decode", "fullsize", "thumbnail">>

\* Whether a stage would fail on the response and the disk of the call
StageFails(stage) ==
    LET url == call.row.url
    IN  CASE stage = "fetch"     -> url.raises # "none"
          [] stage = "status"    -> url.status_code # 200
          [] stage = "empty"     -> url.empty
          [] stage = "content"   -> /\ url.check = "ok"
                                    /\ ~url.ctype_image
                                    /\ url.magic \notin {"FFD8", "89PNG", "GIF"}
          [] stage = "decode"    -> url.decode # "ok"
          [] stage = "fullsize"  -> call.dsk = "full_fails"
          [] stage = "thumbnail" -> call.dsk = "thumb_fails"

FailingStages == {k \in 1..Len(Stages) : StageFails(Stages[k])}

\* The first failing stage in the fixed order, "none" when every stage passes
FirstFailing ==
    IF FailingStages = {} THEN "none"
    ELSE Stages[CHOOSE k \in FailingStages : \A j \in FailingStages : k <= j]

\* How the messages of a stage begin ('Unexpected error' when the fetch or
\* the decoding raised an exception of another class than the one caught)
StageMessages(stage) ==
    CASE stage = "fetch"     -> {"Network error: ", "Unexpected error: "}
      [] stage = "status"    -> {"HTTP error: status code "}
      [] stage = "empty"     -> {"Empty response from server"}
      [] stage = "content"   -> {"Response is not an image (Content-Type: "}
      [] stage = "decode"    -> {"Image processing error: ", "Unexpected error: "}
      [] stage = "fullsize"  -> {"Error saving fullsize image: "}
      [] stage = "thumbnail" -> {"Error saving thumbnail: "}
      [] stage = "none"      -> {}

\* The outcome of the first call is what its first failing stage gives:
\* success when there is none, else the message of that stage; one GET was
\* made unless the fetch was never reached, and a file is there only if
\* its save was reached and went through.
OutcomeOfFirstFailing ==
    /\ Out.ok <=> FirstFailing = "none"
    /\ ~Out.ok => Out.error_msg[1] \in StageMessages(FirstFailing)
    /\ ret[1].gets = 1
    /\ (Out.full # <<>>) <=> FirstFailing \in {"thumbnail", "none"}
    /\ (Out.thumb # <<>>) <=> FirstFailing = "none"
    /\ (call.row.url.raises = "none" /\ call.row.url.status_code \notin 200..299)
          => HttpError(call.row.url.status_code)

\* C13 as claimed: a record is a success if and only if every stage
\* passes, and else its message is that of the first failing stage in the
\* order fetch, status, empty body, content, decode, full-size save,
\* thumbnail save, no later stage being attempted.
C13_StagePrecedence == Returned => OutcomeOfFirstFailing

\* C13 as the code has it: the same for a record whose 'File Name' is a
\* str; a record whose 'File Name' is none (an empty cell) fails with
\* 'Unexpected error' before any stage: no GET is made, nothing is saved.
C13_StagePrecedenceOfNamed ==
    Returned =>
        IF call.row.name.isstr
        THEN OutcomeOfFirstFailing
        ELSE /\ ~Out.ok
             /\ Out.error_msg[1] = "Unexpected error: "
             /\ ret[1].gets = 0
             /\ Out.full = <<>> /\ Out.thumb = <<>>

\* A status that is not 2xx, an empty body and a body that would not
\* decode: the HTTP error is reported and nothing is saved
C13_Witness ==
    /\ Returned
    /\ call.row.name.isstr
    /\ call.row.url.raises = "none"
    /\ call.row.url.status_code = 404
    /\ call.row.url.empty
    /\ call.row.url.decode = "IOError"
    /\ call.dsk = "full_fails"
    /\ HttpError(404)
    /\ Out.full = <<>> /\ Out.thumb = <<>>

(***************************************************************************)
(* The content check                                                       *)
(***************************************************************************)
\* The call got a response of status 200 with a body that is not empty
GoodResponse ==
    /\ Returned /\ ret[1].gets = 1
    /\ call.row.url.raises = "none"
    /\ call.row.url.status_code = 200
    /\ ~call.row.url.empty

NotImageFailure ==
    ~Out.ok /\ Out.error_msg[1] = "Response is not an image (Content-Type: "

\* The record went on to the decoding: its outcome is that of the decoding
\* and of the saves
WentOnToDecode ==
    IF call.row.url.decode = "IOError" THEN ~Out.ok /\ Out.error_msg[1] = "Image processing error: "
    ELSE IF call.row.url.decode # "ok" THEN ~Out.ok /\ Out.error_msg[1] = "Unexpected error: "
    ELSE IF call.dsk = "full_fails" THEN ~Out.ok /\ Out.error_msg[1] = "Error saving fullsize image: "
    ELSE IF call.dsk = "thumb_fails" THEN ~Out.ok /\ Out.error_msg[1] = "Error saving thumbnail: "
    ELSE Out.ok

\* C14: given a response of status 200 that is not empty, the record fails
\* with 'Response is not an image' if and only if the Content-Type does not
\* start with 'image/' and the body starts with none of FF D8, 89 'PNG' and
\* 'GIF'; a response declaring an image type is never turned down by the
\* check, and when the check itself raises the record goes on to the
\* decoding.
C14_ContentCheckAdvisory ==
    GoodResponse =>
        LET url == call.row.url
        IN  /\ url.check = "ok" =>
                (NotImageFailure <=>
                    (~url.ctype_image /\ url.magic \notin {"FFD8", "89PNG", "GIF"}))
            /\ url.ctype_image => ~NotImageFailure
            /\ url.check = "raises" => WentOnToDecode
            /\ ~NotImageFailure => WentOnToDecode

\* The check raises on a response that declares no image type and has no
\* known first bytes, and the image is decoded and saved all the same
C14_Witness ==
    /\ GoodResponse
    /\ call.row.url.check = "raises"
    /\ ~call.row.url.ctype_image
    /\ call.row.url.magic = "other"
    /\ Out.ok
    /\ Out.thumb # <<>>

(***************************************************************************)
(* Progress                                                                *)
(***************************************************************************)
\* The progress_update signals emitted so far, in order
Progress == SelectSeq(signals, LAMBDA e : e.sig = "progress_update")

\* p is the floor of k * 100 / n
IsFloorPercent(p, k, n) == p * n <= k * 100 /\ k * 100 < (p + 1) * n

\* C15: the two progress signals of the record at index k (from 0) of N
\* carry floor(k * 100 / N), and over the signals of a run the values never
\* go down and stay within 0..100.
C15_ProgressPercent ==
    /\ \A k \in 1..i :
          /\ signals[2 * k - 1].sig = "progress_update"
          /\ signals[2 * k].sig = "progress_update"
          /\ IsFloorPercent(signals[2 * k - 1].value, k - 1, Len(csv.rows))
          /\ IsFloorPercent(signals[2 * k].value, k - 1, Len(csv.rows))
    /\ \A k \in 1..Len(Progress) : Progress[k].value \in 0..100
    /\ \A j, k \in 1..Len(Progress) : j <= k => Progress[j].value <= Progress[k].value

C15_Witness ==
    /\ Completed
    /\ Len(csv.rows) = 7
    /\ signals[8].value = 42
    /\ signals[9].value = 57
    /\ signals[14].value = 85
    /\ signals[15].sig = "progress_update" /\ signals[15].value = 100

(***************************************************************************)
(* Runs started from the window                                            *)
(***************************************************************************)
\* self.sequence_dict of a thread made anew, after the first k rows
RECURSIVE FreshDict(_, _, _)
FreshDict(rows, add, k) ==
    IF k = 0 THEN <<>>
    ELSE DeriveFilename(rows[k].name.s, add, FreshDict(rows, add, k - 1)).dict

\* The output file name a run of a thread made anew derives for row k
FreshName(rows, add, k) == DeriveFilename(rows[k].name.s, add, FreshDict(rows, add, k - 1)).name

\* C16: the sequence counters of a run start empty, and the output file
\* name of every record of a run is the one a first run of the same table
\* under the same options derives, whatever runs the window started before:
\* two runs of one table under the same options name every record alike.
C16_RunIsolation ==
    /\ pc = "idle" => sequence_dict = <<>>
    /\ pc \in {"loop", "done"} =>
          /\ sequence_dict = FreshDict(csv.rows, add_sequence, i)
          /\ \A k \in 1..i :
                Colour(k) = "green" =>
                    exif_data_list[Successes(k)].FileName
                        = FreshName(csv.rows, add_sequence, k)
          /\ \A f \in disk.full : \E k \in 1..i : f.name = FreshName(csv.rows, add_sequence, k)

\* A run that follows another one (the progress bar still shows the 100 of
\* the run before, which ended on a failure) numbers its records from 1
C16_Witness ==
    /\ pc = "done"
    /\ gui # NoGui
    /\ gui.delivered = 0
    /\ gui.progress_bar = 100
    /\ add_sequence
    /\ Len(exif_data_list) = 2
    /\ exif_data_list[1].FileName = <<"1", "-", "1", " ", "a">>
    /\ exif_data_list[2].FileName = <<"1", "-", "2", " ", "b", ".", "j">>

(***************************************************************************)
(* File names of a run                                                     *)
(***************************************************************************)
\* The output file name of the k-th record, which was a success
NameOfSuccess(k) == exif_data_list[Successes(k)].FileName

\* C17: with add_sequence, two records of a run whose names, the double
\* quotes removed, begin with a digit get different output file names, and
\* neither gets the name of a record with no leading digit, so that neither
\* overwrites the files of another record (stated of the records that were
\* saved: each has its own full-size file and thumbnail).
C17_DistinctNames ==
    (add_sequence /\ (pc = "loop" \/ Completed)) =>
        \A j, k \in 1..i :
            (j # k /\ Colour(j) = "green" /\ Colour(k) = "green"
             /\ IdOf(csv.rows[j].name) # <<>>) =>
                /\ NameOfSuccess(j) # NameOfSuccess(k)
                /\ \E f \in disk.full : f.name = NameOfSuccess(j)
                /\ \E f \in disk.thumb : f.name = NameOfSuccess(j)

\* C17 for the tables whose file names hold no line feed
C17_DistinctNamesNoLineFeed == NoLineFeed => C17_DistinctNames

\* C18: after a run, a record reported as a failure has left no full-size
\* file and no thumbnail: every file of the full-size folder is the file of
\* a success, with a thumbnail of the same name and a row of
\* image_metadata.csv.  Stated of the runs that complete, where the report
\* is written.
C18_NoOrphanOutput ==
    Completed =>
        /\ \A f \in disk.full :
              /\ \E k \in 1..i : Colour(k) = "green" /\ NameOfSuccess(k) = f.name
              /\ \E t \in disk.thumb : t.name = f.name
              /\ \E r \in 2..Len(disk.csv[1].content) : disk.csv[1].content[r][1] = f.name
        /\ \A t \in disk.thumb : \E f \in disk.full : f.name = t.name
        /\ (\A k \in 1..i : Colour(k) = "red") => (disk.full = {} /\ disk.thumb = {})

(***************************************************************************)
(* The window and its thread                                               *)
(***************************************************************************)
\* A thread was started and processing_finished has not yet run for it
InFlight == gui.in_flight > 0

\* The worker is running, or signals it emitted wait for their slots
WorkerBusy == pc \in {"idle", "loop"} \/ (pc = "done" /\ gui.delivered < Len(signals))

\* What the window shows is what the thread was made with
SelectionsAsStarted ==
    /\ gui.csv_path = gui.thread.csv_path
    /\ gui.output_dir = gui.thread.output_dir[1]
    /\ gui.limit_size_cb = limit_size
    /\ gui.remove_exif_cb = remove_exif
    /\ gui.add_sequence_cb = add_sequence
    /\ csv = FileContent(gui.csv_path)

\* C19: whatever the user does and whenever the signals of the worker are
\* handled, at most one run is in flight; while it is, every control is
\* disabled and no dialog is open, so that the CSV path, the output
\* directory and the options stay those the thread was started with; once
\* processing_finished has run, for a success or a failure, every control
\* is enabled again and a press on Process starts a new run.
C19_SingleRunInFlight ==
    /\ gui.in_flight \in {0, 1}
    /\ InFlight <=> WorkerBusy
    /\ InFlight =>
          /\ gui.enabled = {}
          /\ gui.dialog = "none"
          /\ SelectionsAsStarted
    /\ (pc = "done" /\ ~InFlight) =>
          /\ gui.enabled = Controls
          /\ gui.csv_path # None /\ gui.output_dir # None
          /\ gui.in_flight < MaxThreads

\* A later run in flight (the progress bar still shows the 100 of the run
\* before, which ended on a failure)
C19_Witness ==
    /\ gui # NoGui
    /\ gui.in_flight = 1
    /\ pc = "loop" /\ i = 1
    /\ gui.delivered = 0
    /\ gui.progress_bar = 100
    /\ gui.enabled = {}

====
